---- MODULE Spec2Model ----
(***************************************************************************)
(* Model of gui/src/installer/step/mod.rs: the Step trait with its default *)
(* methods, the Welcome step, the DefineBitcoind step (fields, probe,      *)
(* load_context, update, apply) and the Final step (load_context, update,  *)
(* view).                                                                  *)
(*                                                                         *)
(* A Rust String is a sequence of one-character strings, so that parsing   *)
(* and path building are computed and not assumed.  Option and Result are  *)
(* tagged records.                                                         *)
(***************************************************************************)
EXTENDS Integers, Sequences, FiniteSets, Bags, TLC

VARIABLES
    target_os,        \* cfg(target_os): "linux" or "other", fixed by the build
    configs_dir,      \* what dirs::home_dir() / dirs::config_dir() returns
    ctx,              \* the installer Context
    define_bitcoind,  \* the DefineBitcoind step: cookie_path, address, is_running
    commands,         \* the bag of the Command futures of ping() in flight
    shown_for,        \* history: the probe run whose result is_running holds
    entry,            \* where the installer is with the node step: "new",
                      \* "load_context" (entering, load() is due) or "displayed"
    returned,         \* what the last call returned, when the properties ask for it
    final,            \* the Final step
    installs,         \* the number of install Commands in flight
    panicked          \* an unwrap has panicked: the session is over

vars == <<target_os, configs_dir, ctx, define_bitcoind, commands, shown_for,
          entry, returned, final, installs, panicked>>

\* The number of probe Commands that may be in flight together.
MaxInFlight == 1

\* The number of install Commands that may be in flight together.
MaxInstalls == 2

None == [tag |-> "None"]
Some(x) == [tag |-> "Some", v |-> x]
Ok(x) == [tag |-> "Ok", v |-> x]
Err(e) == [tag |-> "Err", e |-> e]
Unit == <<>>

----------------------------------------------------------------------------
(* Strings the model uses. *)

Empty == <<>>
Nonexistent == <<"/", "n", "o", "n", "e", "x", "i", "s", "t", "e", "n", "t">>
Localhost == <<"l", "o", "c", "a", "l", "h", "o", "s", "t", ":", "8", "3", "3", "2">>
HomeDir == <<"/", "h", "o", "m", "e", "/", "u">>
ConfigDir == <<"/", "c", "f", "g">>

Network == {"Bitcoin", "Testnet", "Regtest", "Signet"}

----------------------------------------------------------------------------
(* std::net::SocketAddr::from_str on the V4 form "a.b.c.d:port": four      *)
(* decimal octets of at most three digits without a zero prefix, each at   *)
(* most 255, a colon, a decimal port of at most 65535, nothing after it.   *)
(* The strings of the model hold no '[', so the V6 form never matches.     *)

DigitVal == [c \in {"0", "1", "2", "3", "4", "5", "6", "7", "8", "9"} |->
               CASE c = "0" -> 0 [] c = "1" -> 1 [] c = "2" -> 2 [] c = "3" -> 3
                 [] c = "4" -> 4 [] c = "5" -> 5 [] c = "6" -> 6 [] c = "7" -> 7
                 [] c = "8" -> 8 [] c = "9" -> 9]

IsDigit(c) == c \in DOMAIN DigitVal

\* How many digits s holds from position i on.
RECURSIVE DigitRun(_, _)
DigitRun(s, i) ==
    IF i <= Len(s) /\ IsDigit(s[i]) THEN 1 + DigitRun(s, i + 1) ELSE 0

\* The decimal value of the n digits of s from position i on.
RECURSIVE DigitsValue(_, _, _)
DigitsValue(s, i, n) ==
    IF n = 0 THEN 0
    ELSE 10 * DigitsValue(s, i, n - 1) + DigitVal[s[i + n - 1]]

\* Parser::read_number: reads the digits at i; fails on no digit, on more than
\* max_digits digits (0: no limit), on a zero prefix when not allowed, and on a
\* value above max (the checked arithmetic of the integer type).
read_number(s, i, max_digits, allow_zero_prefix, max) ==
    LET n == DigitRun(s, i) IN
    IF n = 0 THEN None
    ELSE IF max_digits > 0 /\ n > max_digits THEN None
    ELSE IF ~allow_zero_prefix /\ s[i] = "0" /\ n > 1 THEN None
    ELSE IF DigitsValue(s, i, n) > max THEN None
    ELSE Some([val |-> DigitsValue(s, i, n), next |-> i + n])

\* Parser::read_given_char
read_given_char(s, i, c) ==
    IF i <= Len(s) /\ s[i] = c THEN Some(i + 1) ELSE None

\* Parser::read_ipv4_addr: k octets are still to read, the first at i.
RECURSIVE read_ipv4_addr(_, _, _, _)
read_ipv4_addr(s, i, k, acc) ==
    LET sep == IF Len(acc) = 0 THEN Some(i) ELSE read_given_char(s, i, ".") IN
    IF k = 0 THEN Some([val |-> acc, next |-> i])
    ELSE IF sep = None THEN None
    ELSE LET oct == read_number(s, sep.v, 3, FALSE, 255) IN
         IF oct = None THEN None
         ELSE read_ipv4_addr(s, oct.v.next, k - 1, Append(acc, oct.v.val))

\* A variant: anything that ends in a colon and a port is taken (host names too).
SocketAddr_from_str_any_host(s) ==
    IF \E i \in 1..Len(s) :
           /\ s[i] = ":"
           /\ read_number(s, i + 1, 0, TRUE, 65535) # None
           /\ read_number(s, i + 1, 0, TRUE, 65535).v.next = Len(s) + 1
    THEN Ok([ip |-> <<0, 0, 0, 0>>, port |-> 0])
    ELSE Err("AddrParseError")

SocketAddr_from_str(s) ==
    LET ip == read_ipv4_addr(s, 1, 4, <<>>) IN
    IF ip = None THEN Err("AddrParseError")
    ELSE LET colon == read_given_char(s, ip.v.next, ":") IN
         IF colon = None THEN Err("AddrParseError")
         ELSE LET port == read_number(s, colon.v, 0, TRUE, 65535) IN
              IF port = None THEN Err("AddrParseError")
              ELSE IF port.v.next # Len(s) + 1 THEN Err("AddrParseError")
              ELSE Ok([ip |-> ip.v.val, port |-> port.v.val])

\* PathBuf::from_str: its error type is Infallible; the path holds the string.
PathBuf_from_str(s) == Ok([path |-> s])

\* PathBuf::push: an absolute component replaces the path, another is joined
\* to it with one separator.
PathBuf_push(path, comp) ==
    IF Len(comp) > 0 /\ comp[1] = "/" THEN comp
    ELSE IF Len(path) = 0 \/ path[Len(path)] = "/" THEN path \o comp
    ELSE path \o <<"/">> \o comp

----------------------------------------------------------------------------
(* The defaults of the node step. *)

\* The directory the cookie path starts from: dirs::home_dir() on Linux,
\* dirs::config_dir() elsewhere (the variable holds the call's result).
ConfigsDirs == {None, Some(IF target_os = "linux" THEN HomeDir ELSE ConfigDir)}

bitcoind_default_cookie_path(network) ==
    IF configs_dir # None THEN
        LET dir == PathBuf_push(configs_dir.v,
                       IF target_os = "linux"
                       THEN <<".", "b", "i", "t", "c", "o", "i", "n">>
                       ELSE <<"B", "i", "t", "c", "o", "i", "n">>)
            file == CASE network = "Bitcoin" ->
                           <<".", "c", "o", "o", "k", "i", "e">>
                      [] network = "Testnet" ->
                           <<"t", "e", "s", "t", "n", "e", "t", "3", "/",
                             ".", "c", "o", "o", "k", "i", "e">>
                      [] network = "Regtest" ->
                           <<"r", "e", "g", "t", "e", "s", "t", "/",
                             ".", "c", "o", "o", "k", "i", "e">>
                      [] network = "Signet" ->
                           <<"s", "i", "g", "n", "e", "t", "/",
                             ".", "c", "o", "o", "k", "i", "e">>
        IN Some(PathBuf_push(dir, file))
    ELSE None

\* A variant: the testnet and regtest ports are exchanged.
bitcoind_default_address_swapped(network) ==
    CASE network = "Bitcoin" ->
           <<"1", "2", "7", ".", "0", ".", "0", ".", "1", ":", "8", "3", "3", "2">>
      [] network = "Testnet" ->
           <<"1", "2", "7", ".", "0", ".", "0", ".", "1", ":", "1", "8", "4", "4", "3">>
      [] network = "Regtest" ->
           <<"1", "2", "7", ".", "0", ".", "0", ".", "1", ":", "1", "8", "3", "3", "2">>
      [] network = "Signet" ->
           <<"1", "2", "7", ".", "0", ".", "0", ".", "1", ":", "3", "8", "3", "3", "2">>

bitcoind_default_address(network) ==
    CASE network = "Bitcoin" ->
           <<"1", "2", "7", ".", "0", ".", "0", ".", "1", ":", "8", "3", "3", "2">>
      [] network = "Testnet" ->
           <<"1", "2", "7", ".", "0", ".", "0", ".", "1", ":", "1", "8", "3", "3", "2">>
      [] network = "Regtest" ->
           <<"1", "2", "7", ".", "0", ".", "0", ".", "1", ":", "1", "8", "4", "4", "3">>
      [] network = "Signet" ->
           <<"1", "2", "7", ".", "0", ".", "0", ".", "1", ":", "3", "8", "3", "3", "2">>

\* Option::unwrap_or_default on an Option<String>
unwrap_or_default(opt) == IF opt = None THEN Empty ELSE opt.v

----------------------------------------------------------------------------
(* DefineBitcoind *)

\* form::Value::<String>::default(): the empty string, marked valid.
form_Value_default == [value |-> Empty, valid |-> TRUE]

DefineBitcoind_new ==
    [cookie_path |-> form_Value_default,
     address |-> form_Value_default,
     is_running |-> None]

\* A variant: the Command is built from the cookie path alone.
ping_without_address(self) ==
    [address |-> Empty, cookie_path |-> self.cookie_path.value]

\* ping: the Command owns copies of the two field values taken at the call.
ping(self) ==
    [address |-> self.address.value, cookie_path |-> self.cookie_path.value]

\* The future of ping.  read_ok: read_to_string succeeded; url_ok: the
\* transport builder accepted the address; rpc_ok: the echo request was
\* answered.  Each ? returns the error of its stage; sent tells whether
\* send_request was reached.
\* A variant: the transport is built before the cookie file is read.
ping_future_url_first(read_ok, url_ok, rpc_ok) ==
    IF ~url_ok THEN [res |-> Err("Transport"), sent |-> FALSE]
    ELSE IF ~read_ok THEN [res |-> Err("ReadCookieFile"), sent |-> FALSE]
    ELSE IF ~rpc_ok THEN [res |-> Err("Rpc"), sent |-> TRUE]
    ELSE [res |-> Ok(Unit), sent |-> TRUE]

ping_future(read_ok, url_ok, rpc_ok) ==
    IF ~read_ok THEN [res |-> Err("ReadCookieFile"), sent |-> FALSE]
    ELSE IF ~url_ok THEN [res |-> Err("Transport"), sent |-> FALSE]
    ELSE IF ~rpc_ok THEN [res |-> Err("Rpc"), sent |-> TRUE]
    ELSE [res |-> Ok(Unit), sent |-> TRUE]

\* A variant: the defaults are written whether or not the fields are empty.
load_context_overwrites(self, c) ==
    [self EXCEPT !.cookie_path.value =
                     unwrap_or_default(
                         bitcoind_default_cookie_path(c.bitcoin_config.network)),
                 !.address.value =
                     bitcoind_default_address(c.bitcoin_config.network)]

load_context(self, c) ==
    LET s1 == IF self.cookie_path.value = Empty
              THEN [self EXCEPT !.cookie_path.value =
                      unwrap_or_default(
                          bitcoind_default_cookie_path(c.bitcoin_config.network))]
              ELSE self
    IN IF s1.address.value = Empty
       THEN [s1 EXCEPT !.address.value =
               bitcoind_default_address(c.bitcoin_config.network)]
       ELSE s1

\* The match of update on a message of the node step: the step afterwards and
\* the Command returned (None: Command::none()).
update_match(self, msg) ==
    CASE msg.tag = "PingBitcoind" ->
           LET s1 == [self EXCEPT !.is_running = None]
           IN [self |-> s1, command |-> Some(ping(s1))]
      [] msg.tag = "PingBitcoindResult" ->
           [self |-> [self EXCEPT !.is_running = Some(msg.res)],
            command |-> None]
      [] msg.tag = "AddressEdited" ->
           [self |-> [self EXCEPT !.is_running = None,
                                  !.address.value = msg.address,
                                  !.address.valid = TRUE],
            command |-> None]
      [] msg.tag = "CookiePathEdited" ->
           [self |-> [self EXCEPT !.is_running = None,
                                  !.cookie_path.value = msg.path,
                                  !.address.valid = TRUE],
            command |-> None]

\* A variant: AddressEdited stores the value and leaves the validity flag.
update_edit_keeps_flag(self, message) ==
    LET r == update_match(self, message.msg) IN
    IF message.msg.tag = "AddressEdited"
    THEN [r EXCEPT !.self.address.valid = self.address.valid]
    ELSE r

\* A variant: an edit leaves the probe outcome in place.
update_edit_keeps_outcome(self, message) ==
    LET r == update_match(self, message.msg) IN
    IF message.msg.tag \in {"AddressEdited", "CookiePathEdited"}
    THEN [r EXCEPT !.self.is_running = self.is_running]
    ELSE r

update(self, message) ==
    IF message.tag = "DefineBitcoind"
    THEN update_match(self, message.msg)
    ELSE [self |-> self, command |-> None]

\* The match of apply on the two parse results: the step and the Context
\* afterwards, and the boolean returned.
apply_match(self, c, path, addr) ==
    CASE path.tag = "Err" /\ addr.tag = "Ok" ->
           [self |-> [self EXCEPT !.cookie_path.valid = FALSE],
            ctx |-> c, ret |-> FALSE]
      [] path.tag = "Ok" /\ addr.tag = "Err" ->
           [self |-> [self EXCEPT !.address.valid = FALSE],
            ctx |-> c, ret |-> FALSE]
      [] path.tag = "Err" /\ addr.tag = "Err" ->
           [self |-> [self EXCEPT !.cookie_path.valid = FALSE,
                                  !.address.valid = FALSE],
            ctx |-> c, ret |-> FALSE]
      [] path.tag = "Ok" /\ addr.tag = "Ok" ->
           [self |-> self,
            ctx |-> [c EXCEPT !.bitcoind_config =
                       Some([cookie_path |-> path.v, addr |-> addr.v])],
            ret |-> TRUE]

\* A variant: a failing apply clears the record committed before.
apply_clears_on_failure(self, c) ==
    LET r == apply_match(self, c, PathBuf_from_str(self.cookie_path.value),
                         SocketAddr_from_str(self.address.value))
    IN IF r.ret THEN r ELSE [r EXCEPT !.ctx.bitcoind_config = None]

\* A variant: a successful apply rebuilds the Context without the signer.
apply_drops_signer(self, c) ==
    LET r == apply_match(self, c, PathBuf_from_str(self.cookie_path.value),
                         SocketAddr_from_str(self.address.value))
    IN IF r.ret THEN [r EXCEPT !.ctx.recovered_signer = None] ELSE r

\* A variant: apply goes on only after a successful probe.
apply_requires_probe(self, c) ==
    LET r == apply_match(self, c, PathBuf_from_str(self.cookie_path.value),
                         SocketAddr_from_str(self.address.value))
    IN IF r.ret /\ self.is_running # Some(Ok(Unit))
       THEN [self |-> self, ctx |-> c, ret |-> FALSE]
       ELSE r

apply(self, c) ==
    apply_match(self, c, PathBuf_from_str(self.cookie_path.value),
                SocketAddr_from_str(self.address.value))

\* A variant: the default apply starts the Context's node record afresh.
Step_apply_resets(c) == [ctx |-> [c EXCEPT !.bitcoind_config = None], ret |-> TRUE]

\* Step::apply, the default of the trait (Welcome and Final do not override it).
Step_apply(c) == [ctx |-> c, ret |-> TRUE]

\* Step::update, Step::load and Step::skip, the defaults of the trait: an empty
\* Command (None), and false.
Step_update(message) == None

Step_load == None

Step_skip(c) == FALSE

----------------------------------------------------------------------------
(* Final *)

\* A Fingerprint is four bytes; its Display writes them as lower-case hex.
HexDigits ==
    <<"0", "1", "2", "3", "4", "5", "6", "7", "8", "9", "a", "b", "c", "d", "e", "f">>

RECURSIVE Fingerprint_to_string(_)
Fingerprint_to_string(fp) ==
    IF fp = <<>> THEN <<>>
    ELSE <<HexDigits[(Head(fp) \div 16) + 1], HexDigits[(Head(fp) % 16) + 1]>>
         \o Fingerprint_to_string(Tail(fp))

\* A descriptor is the sequence of its keys, a key the fingerprint of its
\* origin and the name of its extended key; its Display writes
\* wsh(multi([origin]key,...)).
RECURSIVE Keys_to_string(_)
Keys_to_string(keys) ==
    IF keys = <<>> THEN <<>>
    ELSE <<"[">> \o Fingerprint_to_string(Head(keys).origin) \o <<"]">>
         \o Head(keys).xpub
         \o (IF Tail(keys) = <<>> THEN <<>> ELSE <<",">>)
         \o Keys_to_string(Tail(keys))

Descriptor_to_string(descriptor) ==
    <<"w", "s", "h", "(", "m", "u", "l", "t", "i", "(">>
    \o Keys_to_string(descriptor) \o <<")", ")">>

\* str::contains: the pattern occurs at some offset of the text.
contains(text, pattern) ==
    \E i \in 0..(Len(text) - Len(pattern)) :
        SubSeq(text, i + 1, i + Len(pattern)) = pattern

\* Error's Display.
Error_to_string(e) ==
    CASE e = "CannotCreateDatadir" ->
           <<"c", "a", "n", "n", "o", "t", " ", "c", "r", "e", "a", "t", "e">>
      [] e = "CannotWriteToFile" ->
           <<"c", "a", "n", "n", "o", "t", " ", "w", "r", "i", "t", "e">>

Final_new(hot_signer_fingerprint) ==
    [context |-> None,
     generating |-> FALSE,
     warning |-> None,
     config_path |-> None,
     hot_signer_fingerprint |-> hot_signer_fingerprint,
     hot_signer_is_not_used |-> FALSE]

\* A variant: a recovered signer leaves the fingerprint of the step as it is.
Final_load_context_keeps_fingerprint(self, c) ==
    LET s1 == [self EXCEPT !.context = Some(c)] IN
    IF c.recovered_signer # None
    THEN [self |-> [s1 EXCEPT !.hot_signer_is_not_used = FALSE], panic |-> FALSE]
    ELSE IF c.descriptor = None
    THEN [self |-> s1, panic |-> TRUE]
    ELSE [self |-> [s1 EXCEPT !.hot_signer_is_not_used =
                      ~contains(Descriptor_to_string(c.descriptor.v),
                                Fingerprint_to_string(s1.hot_signer_fingerprint))],
          panic |-> FALSE]

\* A variant: a missing descriptor counts as a descriptor without the key.
Final_load_context_lenient(self, c) ==
    LET s1 == [self EXCEPT !.context = Some(c)] IN
    IF c.recovered_signer # None
    THEN [self |-> [s1 EXCEPT !.hot_signer_fingerprint =
                                  c.recovered_signer.v.fingerprint,
                              !.hot_signer_is_not_used = FALSE],
          panic |-> FALSE]
    ELSE IF c.descriptor = None
    THEN [self |-> [s1 EXCEPT !.hot_signer_is_not_used = TRUE], panic |-> FALSE]
    ELSE [self |-> [s1 EXCEPT !.hot_signer_is_not_used =
                      ~contains(Descriptor_to_string(c.descriptor.v),
                                Fingerprint_to_string(s1.hot_signer_fingerprint))],
          panic |-> FALSE]

\* load_context: the step afterwards, and whether the unwrap of the
\* descriptor panicked (the Context is stored before).
Final_load_context(self, c) ==
    LET s1 == [self EXCEPT !.context = Some(c)] IN
    IF c.recovered_signer # None
    THEN [self |-> [s1 EXCEPT !.hot_signer_fingerprint =
                                  c.recovered_signer.v.fingerprint,
                              !.hot_signer_is_not_used = FALSE],
          panic |-> FALSE]
    ELSE IF c.descriptor = None
    THEN [self |-> s1, panic |-> TRUE]
    ELSE IF contains(Descriptor_to_string(c.descriptor.v),
                     Fingerprint_to_string(s1.hot_signer_fingerprint))
    THEN [self |-> [s1 EXCEPT !.hot_signer_is_not_used = FALSE], panic |-> FALSE]
    ELSE [self |-> [s1 EXCEPT !.hot_signer_is_not_used = TRUE], panic |-> FALSE]

\* A variant: Install keeps the error of the install before.
Final_update_keeps_warning(self, message) ==
    CASE message.tag = "Installed" ->
           LET s1 == [self EXCEPT !.generating = FALSE] IN
           [self |-> IF message.res.tag = "Err"
                     THEN [s1 EXCEPT !.config_path = None,
                                     !.warning =
                                         Some(Error_to_string(message.res.e))]
                     ELSE [s1 EXCEPT !.config_path = Some(message.res.v)],
            command |-> None]
      [] message.tag = "Install" ->
           [self |-> [self EXCEPT !.generating = TRUE,
                                  !.config_path = None],
            command |-> None]
      [] OTHER -> [self |-> self, command |-> None]

\* A variant: every message ends the generation.
Final_update_any_message_ends(self, message) ==
    CASE message.tag = "Installed" ->
           LET s1 == [self EXCEPT !.generating = FALSE] IN
           [self |-> IF message.res.tag = "Err"
                     THEN [s1 EXCEPT !.config_path = None,
                                     !.warning =
                                         Some(Error_to_string(message.res.e))]
                     ELSE [s1 EXCEPT !.config_path = Some(message.res.v)],
            command |-> None]
      [] message.tag = "Install" ->
           [self |-> [self EXCEPT !.generating = TRUE,
                                  !.config_path = None,
                                  !.warning = None],
            command |-> None]
      [] OTHER -> [self |-> [self EXCEPT !.generating = FALSE], command |-> None]

\* update: the step afterwards and the Command returned (None: Command::none()).
Final_update(self, message) ==
    CASE message.tag = "Installed" ->
           LET s1 == [self EXCEPT !.generating = FALSE] IN
           [self |-> IF message.res.tag = "Err"
                     THEN [s1 EXCEPT !.config_path = None,
                                     !.warning =
                                         Some(Error_to_string(message.res.e))]
                     ELSE [s1 EXCEPT !.config_path = Some(message.res.v)],
            command |-> None]
      [] message.tag = "Install" ->
           [self |-> [self EXCEPT !.generating = TRUE,
                                  !.config_path = None,
                                  !.warning = None],
            command |-> None]
      [] OTHER -> [self |-> self, command |-> None]

\* view: the arguments handed to view::install, or a panic of one of the two
\* unwraps.
Final_view(self) ==
    IF self.context = None \/ self.context.v.descriptor = None
    THEN [panic |-> TRUE, element |-> None]
    ELSE [panic |-> FALSE,
          element |->
              Some([ctx |-> self.context.v,
                    desc |-> Descriptor_to_string(self.context.v.descriptor.v),
                    generating |-> self.generating,
                    config_path |-> self.config_path,
                    warning |-> self.warning,
                    hot_signer |-> IF self.hot_signer_is_not_used THEN None
                                   ELSE Some(self.hot_signer_fingerprint)])]

----------------------------------------------------------------------------
(* The state machine: the installer calls the steps' methods, the user     *)
(* edits the fields, and the probes in flight complete in any order.       *)

\* What the user may type in the address field and in the cookie path field.
AddressInputs == {Empty, Localhost, bitcoind_default_address(ctx.bitcoin_config.network)}
CookiePathInputs == {Empty, Nonexistent}

\* SocketAddr::from_str on the texts the address field can hold.
AddressTexts == {Empty, Localhost} \cup {bitcoind_default_address(n) : n \in Network}
ParsedAddress == [s \in AddressTexts |-> SocketAddr_from_str(s)]

\* The files read_to_string never reads; it may or may not read another one.
Unreadable == {Empty, Nonexistent}

\* The fingerprints of the key the installer generated (aabbccdd), of the
\* recovered signer (01234567) and of a cosigner (deadbeef).
HotSignerFingerprint == <<170, 187, 204, 221>>
RecoveredFingerprint == <<1, 35, 69, 103>>
CosignerFingerprint == <<222, 173, 190, 239>>

\* The descriptor and the recovered signer earlier steps have committed: the
\* descriptor has the generated key and a cosigner's.
Descriptor ==
    <<[origin |-> HotSignerFingerprint, xpub |-> <<"x", "p", "u", "b", "A">>],
      [origin |-> CosignerFingerprint, xpub |-> <<"x", "p", "u", "b", "B">>]>>
RecoveredSigner == [fingerprint |-> RecoveredFingerprint]

\* A descriptor with the recovered signer's key and not the generated one, and
\* a descriptor of other keys, one of which reads aabbccdd in its text.
DescriptorOfRecovered ==
    <<[origin |-> RecoveredFingerprint, xpub |-> <<"x", "p", "u", "b", "A">>],
      [origin |-> CosignerFingerprint, xpub |-> <<"x", "p", "u", "b", "B">>]>>
DescriptorOfOthers ==
    <<[origin |-> CosignerFingerprint,
       xpub |-> <<"x", "p", "u", "b", "a", "a", "b", "b", "c", "c", "d", "d">>]>>

Descriptors == {Descriptor, DescriptorOfRecovered, DescriptorOfOthers}

\* What the install Command gives: the path of the file written, or an error.
ConfigPath ==
    [path |-> <<"/", "h", "o", "m", "e", "/", "u", "/", ".", "l", "i", "a", "n", "a",
                "/", "d", "a", "e", "m", "o", "n", ".", "t", "o", "m", "l">>]
InstallResults ==
    {Ok(ConfigPath), Err("CannotCreateDatadir"), Err("CannotWriteToFile")}

\* The messages of the installer.
NodeMessages ==
    {[tag |-> "DefineBitcoind", msg |-> [tag |-> "PingBitcoind"]],
     [tag |-> "DefineBitcoind",
      msg |-> [tag |-> "PingBitcoindResult", res |-> Ok(Unit)]],
     [tag |-> "DefineBitcoind",
      msg |-> [tag |-> "PingBitcoindResult", res |-> Err("Rpc")]],
     [tag |-> "DefineBitcoind",
      msg |-> [tag |-> "AddressEdited", address |-> Localhost]],
     [tag |-> "DefineBitcoind",
      msg |-> [tag |-> "CookiePathEdited", path |-> Nonexistent]]}
InstallMessages ==
    {[tag |-> "Install"]} \cup {[tag |-> "Installed", res |-> r] : r \in InstallResults}
OtherMessages == {[tag |-> "Next"], [tag |-> "Previous"]}
Messages == NodeMessages \cup InstallMessages \cup OtherMessages

Context_new(network) ==
    [bitcoin_config |-> [network |-> network],
     bitcoind_config |-> None,
     descriptor |-> Some(Descriptor),
     recovered_signer |-> Some(RecoveredSigner)]

InitStep ==
    /\ define_bitcoind = DefineBitcoind_new
    /\ entry = "new"
    /\ commands = EmptyBag
    /\ shown_for = None
    /\ returned = None
    /\ final = Final_new(HotSignerFingerprint)
    /\ installs = 0
    /\ panicked = FALSE

\* Every build target, with and without a known directory, on every network.
InitEntry ==
    /\ target_os \in {"linux", "other"}
    /\ configs_dir \in ConfigsDirs
    /\ ctx \in {Context_new(network) : network \in Network}
    /\ InitStep

\* A Linux build with a home directory, on testnet (the probe reads the build
\* target and the network through the defaults of the two fields only).
Init ==
    /\ target_os = "linux"
    /\ configs_dir = Some(HomeDir)
    /\ ctx = Context_new("Testnet")
    /\ InitStep

\* The Contexts the steps before Final may have left: with or without a
\* descriptor, with or without a recovered signer.
InitFinal ==
    /\ target_os = "linux"
    /\ configs_dir = Some(HomeDir)
    /\ ctx \in {[Context_new("Testnet") EXCEPT !.descriptor = d,
                                               !.recovered_signer = s] :
                  d \in {None} \cup {Some(x) : x \in Descriptors},
                  s \in {None, Some(RecoveredSigner)}}
    /\ InitStep

Env == <<target_os, configs_dir>>

FinalStep == <<final, installs, panicked>>

NodeStep == <<define_bitcoind, commands, shown_for, entry>>

\* The installer's use of a step: it enters the step with load_context and
\* then load, and it hands messages to, and calls apply of, a step it has
\* entered.
Entering == entry = "load_context"

Entered == entry # "new"

\* The installer enters the node step: load_context(&ctx).
LoadContext ==
    /\ define_bitcoind' = load_context(define_bitcoind, ctx)
    /\ entry' = "load_context"
    /\ returned' = None
    /\ UNCHANGED <<Env, ctx, commands, shown_for, FinalStep>>

\* load(): the Command of ping() is handed to the runtime.
Load ==
    /\ Entering
    /\ BagCardinality(commands) < MaxInFlight
    /\ commands' = commands (+) SetToBag({ping(define_bitcoind)})
    /\ entry' = "displayed"
    /\ returned' = None
    /\ UNCHANGED <<Env, ctx, define_bitcoind, shown_for, FinalStep>>

\* update(message) of the node step: the Command it returns is handed to the
\* runtime.
Dispatch(message) ==
    LET r == update(define_bitcoind, message) IN
    /\ Entered
    /\ r.command # None => BagCardinality(commands) < MaxInFlight
    /\ define_bitcoind' = r.self
    /\ entry' = "displayed"
    /\ commands'= IF r.command = None THEN commands
                   ELSE commands (+) SetToBag({r.command.v})
    /\ shown_for' = IF r.self.is_running = None THEN None ELSE shown_for
    /\ UNCHANGED <<Env, ctx, FinalStep>>

\* update(message) for a message that carries no probe result.
Update(message) ==
    /\ Dispatch(message)
    /\ returned' = None

PingBitcoind ==
    Update([tag |-> "DefineBitcoind", msg |-> [tag |-> "PingBitcoind"]])

AddressEdited ==
    \E a \in AddressInputs :
        Update([tag |-> "DefineBitcoind",
                msg |-> [tag |-> "AddressEdited", address |-> a]])

CookiePathEdited ==
    \E p \in CookiePathInputs :
        Update([tag |-> "DefineBitcoind",
                msg |-> [tag |-> "CookiePathEdited", path |-> p]])

\* The future of a Command in flight runs (it has no await point) and
\* its result reaches update as PingBitcoindResult.  The transport builder
\* takes every socket address; whether it takes another string (a host name)
\* and whether the node answers are left to the environment.
PingResult(c, read_ok, url_ok, rpc_ok) ==
        LET run == ping_future(read_ok, url_ok, rpc_ok)
            r == update(define_bitcoind,
                        [tag |-> "DefineBitcoind",
                         msg |-> [tag |-> "PingBitcoindResult", res |-> run.res]])
        IN /\ BagIn(c, commands)
           /\ commands' = commands (-) SetToBag({c})
           /\ c.cookie_path \in Unreadable => ~read_ok
           /\ ParsedAddress[c.address].tag = "Ok" => url_ok
           /\ define_bitcoind' = r.self
           /\ entry' = "displayed"
           /\ shown_for' = Some([cookie_path |-> c.cookie_path,
                                 address |-> c.address,
                                 sent |-> run.sent])
           /\ returned' = None
           /\ UNCHANGED <<Env, ctx, FinalStep>>

PingBitcoindResult ==
    \E c \in BagToSet(commands), read_ok, url_ok, rpc_ok \in BOOLEAN :
        PingResult(c, read_ok, url_ok, rpc_ok)

\* The installer leaves the node step: apply(&mut ctx).
DefineBitcoindApply ==
    LET r == apply(define_bitcoind, ctx) IN
    /\ Entered
    /\ define_bitcoind' = r.self
    /\ entry' = "displayed"
    /\ ctx' = r.ctx
    /\ returned' = Some([of |-> "DefineBitcoind::apply", ret |-> r.ret])
    /\ UNCHANGED <<Env, commands, shown_for, FinalStep>>

\* apply(&mut ctx) of a step that keeps the default of the trait.
DefaultApply ==
    LET r == Step_apply(ctx) IN
    /\ ctx' = r.ctx
    /\ returned' = Some([of |-> "Step::apply", ret |-> r.ret])
    /\ UNCHANGED <<Env, define_bitcoind, commands, shown_for, entry, FinalStep>>

WelcomeApply == DefaultApply

FinalApply == DefaultApply

\* update(message) of the node step for a message of another step.
UnrelatedUpdate ==
    \E message \in Messages \ NodeMessages :
        /\ Dispatch(message)
        /\ returned' = Some([of |-> "DefineBitcoind::update",
                             command |-> update(define_bitcoind, message).command])

\* skip(&ctx) of a step: none of the three overrides the default.
DefaultSkip ==
    /\ ~panicked
    /\ returned' = Some([of |-> "Step::skip", ret |-> Step_skip(ctx)])
    /\ UNCHANGED <<Env, ctx, NodeStep, FinalStep>>

\* update(message) and load() of Welcome, the defaults of the trait: no
\* Command is issued.
WelcomeUpdate ==
    \E message \in Messages :
        /\ ~panicked
        /\ commands' = IF Step_update(message) = None THEN commands
                       ELSE commands (+) SetToBag({Step_update(message).v})
        /\ returned' = Some([of |-> "Step::update", command |-> Step_update(message)])
        /\ UNCHANGED <<Env, ctx, define_bitcoind, shown_for, entry, FinalStep>>

WelcomeLoad ==
    /\ ~panicked
    /\ commands' = IF Step_load = None THEN commands
                   ELSE commands (+) SetToBag({Step_load.v})
    /\ returned' = None
    /\ UNCHANGED <<Env, ctx, define_bitcoind, shown_for, entry, FinalStep>>

\* The steps of descriptor.rs and mnemonic.rs that own the descriptor and the
\* recovered signer: applied, or applied again, they write their field.
DefineDescriptorApply ==
    \E d \in Descriptors :
        /\ ~panicked
        /\ ctx' = [ctx EXCEPT !.descriptor = Some(d)]
        /\ returned' = None
        /\ UNCHANGED <<Env, NodeStep, FinalStep>>

RecoverMnemonicApply ==
    \E s \in {None, Some(RecoveredSigner)} :
        /\ ~panicked
        /\ ctx' = [ctx EXCEPT !.recovered_signer = s]
        /\ returned' = None
        /\ UNCHANGED <<Env, NodeStep, FinalStep>>

\* The installer has entered Final: load_context has stored the Context.
FinalEntered == final.context # None

\* The installer enters Final: load_context(&ctx).
FinalLoadContext ==
    LET r == Final_load_context(final, ctx) IN
    /\ ~panicked
    /\ final' = r.self
    /\ panicked' = r.panic
    /\ returned' = None
    /\ UNCHANGED <<Env, ctx, NodeStep, installs>>

\* The installer draws Final: view(progress) hands its arguments to
\* view::install, or panics.
FinalView ==
    LET r == Final_view(final) IN
    /\ ~panicked
    /\ FinalEntered
    /\ panicked' = r.panic
    /\ returned' = None
    /\ UNCHANGED <<Env, ctx, NodeStep, final, installs>>

\* update(message) of Final; the Command it returns is handed to the runtime.
FinalUpdate(message) ==
    LET r == Final_update(final, message) IN
    /\ ~panicked
    /\ FinalEntered
    /\ final' = r.self
    /\ commands' = IF r.command = None THEN commands
                   ELSE commands (+) SetToBag({r.command.v})
    /\ returned' = Some([of |-> "Final::update", command |-> r.command])
    /\ UNCHANGED <<Env, ctx, define_bitcoind, shown_for, entry, panicked>>

\* The user asks for the installation: the installer hands Install to the
\* step and starts the install Command.
Install ==
    /\ installs < MaxInstalls
    /\ FinalUpdate([tag |-> "Install"])
    /\ installs' = installs + 1

\* An install Command in flight ends and its result reaches update.
Installed ==
    \E res \in InstallResults :
        /\ installs > 0
        /\ FinalUpdate([tag |-> "Installed", res |-> res])
        /\ installs' = installs - 1

\* update(message) of Final for a message that is not its own.
FinalUnrelatedUpdate ==
    \E message \in Messages \ InstallMessages :
        /\ FinalUpdate(message)
        /\ installs' = installs

Next ==
    \/ LoadContext
    \/ Load
    \/ PingBitcoind
    \/ AddressEdited
    \/ CookiePathEdited
    \/ PingBitcoindResult
    \/ DefineBitcoindApply
    \/ WelcomeApply
    \/ FinalApply

Spec == Init /\ [][Next]_vars

\* The Commands ping can build in the environment of Init: the address and the
\* cookie path are what the user can type or the defaults of testnet.
TestnetCookie ==
    HomeDir \o <<"/", ".", "b", "i", "t", "c", "o", "i", "n", "/", "t", "e", "s", "t",
                 "n", "e", "t", "3", "/", ".", "c", "o", "o", "k", "i", "e">>
ProbeCommands ==
    {[address |-> a, cookie_path |-> p] :
        a \in {Empty, Localhost, bitcoind_default_address("Testnet")},
        p \in {Empty, Nonexistent, TestnetCookie}}

\* The future of the Command c ends.
PingResultOf(c) ==
    \E read_ok, url_ok, rpc_ok \in BOOLEAN : PingResult(c, read_ok, url_ok, rpc_ok)

\* The runtime polls every future it was handed: a probe in flight ends (its
\* blocking calls return, the transport has a timeout of three seconds).
SpecLive ==
    Init /\ [][Next]_vars /\ \A c \in ProbeCommands : WF_vars(PingResultOf(c))

\* The calls that issue no Command, in every environment.
NextEntry ==
    \/ LoadContext
    \/ AddressEdited
    \/ CookiePathEdited
    \/ DefineBitcoindApply
    \/ WelcomeApply
    \/ FinalApply

SpecEntry == InitEntry /\ [][NextEntry]_vars

\* Final, with the steps that write the descriptor and the recovered signer.
NextFinal ==
    \/ DefineDescriptorApply
    \/ RecoverMnemonicApply
    \/ FinalLoadContext
    \/ FinalView
    \/ Install
    \/ Installed
    \/ FinalUnrelatedUpdate
    \/ FinalApply

SpecFinal == InitFinal /\ [][NextFinal]_vars

\* The three steps of the file on one Context: every operation but the probe
\* of the node step, which Spec has.
NextSteps ==
    \/ WelcomeLoad
    \/ WelcomeUpdate
    \/ WelcomeApply
    \/ DefaultSkip
    \/ LoadContext
    \/ AddressEdited
    \/ CookiePathEdited
    \/ UnrelatedUpdate
    \/ DefineBitcoindApply
    \/ FinalLoadContext
    \/ FinalView
    \/ Install
    \/ Installed
    \/ FinalUnrelatedUpdate
    \/ FinalApply

SpecSteps == Init /\ [][NextSteps]_vars

----------------------------------------------------------------------------
(* Properties of the node step.                                            *)

CurrentNetwork == ctx.bitcoin_config.network

\* The socket addresses the model's address strings denote, written out.
ExpectedPort(network) ==
    CASE network = "Bitcoin" -> 8332
      [] network = "Testnet" -> 18332
      [] network = "Regtest" -> 18443
      [] network = "Signet" -> 38332

ExpectedAddress(network) ==
    CASE network = "Bitcoin" ->
           <<"1", "2", "7", ".", "0", ".", "0", ".", "1", ":", "8", "3", "3", "2">>
      [] network = "Testnet" ->
           <<"1", "2", "7", ".", "0", ".", "0", ".", "1", ":", "1", "8", "3", "3", "2">>
      [] network = "Regtest" ->
           <<"1", "2", "7", ".", "0", ".", "0", ".", "1", ":", "1", "8", "4", "4", "3">>
      [] network = "Signet" ->
           <<"1", "2", "7", ".", "0", ".", "0", ".", "1", ":", "3", "8", "3", "3", "2">>

\* The address strings of the model that are socket addresses.
ValidSocketAddrs == {ExpectedAddress(n) : n \in Network}

ExpectedSocketAddr(s) ==
    IF s \in ValidSocketAddrs
    THEN Some([ip |-> <<127, 0, 0, 1>>,
               port |-> ExpectedPort(CHOOSE n \in Network : ExpectedAddress(n) = s)])
    ELSE None

AnyApply == DefineBitcoindApply \/ WelcomeApply \/ FinalApply

\* The last call was apply of the node step, or the default apply, and it
\* returned ret.
NodeApplyReturned(ret) ==
    returned = Some([of |-> "DefineBitcoind::apply", ret |-> ret])

DefaultApplyReturned(ret) ==
    returned = Some([of |-> "Step::apply", ret |-> ret])

\* C1: whenever the probe outcome is_running is Some(result), the result is
\* that of a probe issued with the current cookie path and address values.
C1_OutcomeIsOfCurrentInput ==
    define_bitcoind.is_running # None =>
        /\ shown_for # None
        /\ shown_for.v.cookie_path = define_bitcoind.cookie_path.value
        /\ shown_for.v.address = define_bitcoind.address.value

\* C2: when apply of a step (Welcome, DefineBitcoind, Final) returns false, the
\* Context is exactly the Context before the call.
C2_FailedApplyKeepsContext ==
    [][AnyApply /\ (NodeApplyReturned(FALSE) \/ DefaultApplyReturned(FALSE))' =>
         ctx' = ctx]_vars

\* A failed apply of the node step on a Context that holds a node record
\* committed by an earlier, successful apply.
C2_Witness ==
    /\ NodeApplyReturned(FALSE)
    /\ ~define_bitcoind.address.valid
    /\ ctx.bitcoind_config # None

\* C3: when DefineBitcoind.apply returns true, the Context afterwards holds the
\* record of the parsed cookie path and the parsed address of the current
\* field values and every other field is unchanged; the default apply returns
\* true and changes no field.
C3_ApplyCommitsOwnFieldOnly ==
    [][/\ DefineBitcoindApply /\ NodeApplyReturned(TRUE)' =>
            LET addr == ExpectedSocketAddr(define_bitcoind.address.value) IN
            /\ addr # None
            /\ ctx' = [ctx EXCEPT !.bitcoind_config =
                         Some([cookie_path |->
                                   [path |-> define_bitcoind.cookie_path.value],
                               addr |-> addr.v])]
       /\ WelcomeApply \/ FinalApply =>
            /\ DefaultApplyReturned(TRUE)'
            /\ ctx' = ctx
      ]_vars

\* A successful apply of the node step on testnet with a user-typed path: the
\* record is committed beside the descriptor and the signer of earlier steps.
C3_Witness ==
    /\ NodeApplyReturned(TRUE)
    /\ define_bitcoind.cookie_path.value = Nonexistent
    /\ ctx.bitcoind_config =
         Some([cookie_path |-> [path |-> Nonexistent],
               addr |-> [ip |-> <<127, 0, 0, 1>>, port |-> 18332]])
    /\ ctx.descriptor = Some(Descriptor)
    /\ ctx.recovered_signer = Some(RecoveredSigner)

\* C4: DefineBitcoind.apply returns true exactly when the cookie path parses as
\* a path and the address as a socket address; when it returns false every
\* field that failed to parse is marked invalid and a field that parsed keeps
\* the flag it had.
C4_ApplyValidatesBothFields ==
    [][DefineBitcoindApply =>
         LET path_ok == PathBuf_from_str(define_bitcoind.cookie_path.value).tag = "Ok"
             addr_ok == define_bitcoind.address.value \in ValidSocketAddrs
         IN /\ NodeApplyReturned(path_ok /\ addr_ok)'
            /\ ~path_ok => ~define_bitcoind'.cookie_path.valid
            /\ ~addr_ok => ~define_bitcoind'.address.valid
            /\ path_ok => define_bitcoind'.cookie_path.valid
                            = define_bitcoind.cookie_path.valid
            /\ addr_ok => define_bitcoind'.address.valid
                            = define_bitcoind.address.valid
      ]_vars

\* apply has rejected a host name in the address field: the address is marked
\* invalid and the cookie path is not.
C4_Witness ==
    /\ NodeApplyReturned(FALSE)
    /\ define_bitcoind.address.value = Localhost
    /\ ~define_bitcoind.address.valid
    /\ define_bitcoind.cookie_path.valid

\* C5: after apply has marked a field invalid, the edit message of that field
\* sets the field's own validity flag back to valid.
C5_EditRevalidatesOwnField ==
    [][/\ AddressEdited => define_bitcoind'.address.valid
       /\ CookiePathEdited => define_bitcoind'.cookie_path.valid
      ]_vars

\* apply has just marked the emptied address invalid: the state the next
\* AddressEdited recovers from.
C5_Witness ==
    /\ NodeApplyReturned(FALSE)
    /\ define_bitcoind.address.value = Empty
    /\ ~define_bitcoind.address.valid

ProbeOutcomes ==
    {None, Some(Ok(Unit)), Some(Err("ReadCookieFile")), Some(Err("Transport")),
     Some(Err("Rpc"))}

\* C6: for two states of the node step that differ in the probe outcome only,
\* apply returns the same boolean, gives the same Context and the same
\* validity flags, and leaves is_running as it was.
C6_ApplyIgnoresProbeOutcome ==
    /\ [](LET a == apply(define_bitcoind, ctx) IN
          \A outcome \in ProbeOutcomes :
            LET b == apply([define_bitcoind EXCEPT !.is_running = outcome], ctx)
            IN /\ b.ret = a.ret
               /\ b.ctx = a.ctx
               /\ b.self.cookie_path = a.self.cookie_path
               /\ b.self.address = a.self.address
               /\ b.self.is_running = outcome)
    /\ [][DefineBitcoindApply =>
            define_bitcoind'.is_running = define_bitcoind.is_running]_vars

\* apply has just returned true and committed the record while the outcome
\* shown is a failed probe.
C6_Witness ==
    /\ NodeApplyReturned(TRUE)
    /\ define_bitcoind.is_running = Some(Err("ReadCookieFile"))
    /\ ctx.bitcoind_config # None
    /\ ctx.bitcoind_config.v.cookie_path.path = define_bitcoind.cookie_path.value

\* C7: right after AddressEdited or CookiePathEdited is_running is None,
\* whatever it was, and it stays None until a PingBitcoindResult is delivered.
C7_EditClearsOutcome ==
    [][/\ AddressEdited \/ CookiePathEdited =>
            define_bitcoind'.is_running = None
       /\ define_bitcoind.is_running = None /\ define_bitcoind'.is_running # None =>
            PingBitcoindResult
      ]_vars

\* The outcome is cleared and a probe issued with a host name as the address is
\* still in flight, the address field having been emptied since.
C7_Witness ==
    /\ define_bitcoind.is_running = None
    /\ define_bitcoind.address.value = Empty
    /\ \E c \in BagToSet(commands) : c.address = Localhost

\* C8: load_context leaves a non-empty cookie path and a non-empty address as
\* they are for every Context, whatever its network, and calling it twice
\* gives the state one call gives.
C8_LoadContextKeepsInput ==
    /\ [](\A network \in Network :
            LET c == [ctx EXCEPT !.bitcoin_config.network = network]
                once == load_context(define_bitcoind, c)
            IN /\ define_bitcoind.cookie_path.value # Empty =>
                    once.cookie_path = define_bitcoind.cookie_path
               /\ define_bitcoind.address.value # Empty =>
                    once.address = define_bitcoind.address
               /\ load_context(once, c) = once)
    /\ [][LoadContext =>
            /\ define_bitcoind.cookie_path.value # Empty =>
                 define_bitcoind'.cookie_path = define_bitcoind.cookie_path
            /\ define_bitcoind.address.value # Empty =>
                 define_bitcoind'.address = define_bitcoind.address]_vars

\* The step is entered again with a path and an address the user typed, neither
\* of them a default.
C8_Witness ==
    /\ define_bitcoind.cookie_path.value = Nonexistent
    /\ define_bitcoind.address.value = Localhost
    /\ returned = None

\* The base of the default cookie path when the directory is known.
ExpectedBitcoinDir ==
    IF target_os = "linux"
    THEN <<"/", "h", "o", "m", "e", "/", "u", "/", ".", "b", "i", "t", "c", "o", "i", "n">>
    ELSE <<"/", "c", "f", "g", "/", "B", "i", "t", "c", "o", "i", "n">>

ExpectedCookieSubpath(network) ==
    CASE network = "Bitcoin" -> <<"/", ".", "c", "o", "o", "k", "i", "e">>
      [] network = "Testnet" ->
           <<"/", "t", "e", "s", "t", "n", "e", "t", "3",
             "/", ".", "c", "o", "o", "k", "i", "e">>
      [] network = "Regtest" ->
           <<"/", "r", "e", "g", "t", "e", "s", "t",
             "/", ".", "c", "o", "o", "k", "i", "e">>
      [] network = "Signet" ->
           <<"/", "s", "i", "g", "n", "e", "t",
             "/", ".", "c", "o", "o", "k", "i", "e">>

BothFieldsEmpty ==
    /\ define_bitcoind.cookie_path.value = Empty
    /\ define_bitcoind.address.value = Empty

C10_FirstFailingStage ==
    [][\A c \in BagToSet(commands) :
         commands' = commands (-) SetToBag({c}) =>
         \A read_ok, url_ok, rpc_ok \in BOOLEAN :
         PingResult(c, read_ok, url_ok, rpc_ok) =>
            /\ define_bitcoind'.is_running =
                 Some(IF ~read_ok THEN Err("ReadCookieFile")
                      ELSE IF ~url_ok THEN Err("Transport")
                      ELSE IF ~rpc_ok THEN Err("Rpc")
                      ELSE Ok(Unit))
            /\ shown_for'.v.sent = (read_ok /\ url_ok)
      ]_vars

\* The probe of Scenario B has completed: an unreadable cookie file with the
\* testnet address gives the file-read error and no request was sent.
C10_Witness ==
    /\ define_bitcoind.is_running = Some(Err("ReadCookieFile"))
    /\ shown_for # None
    /\ shown_for.v.cookie_path = Nonexistent
    /\ shown_for.v.address = ExpectedAddress("Testnet")
    /\ ~shown_for.v.sent

----------------------------------------------------------------------------
(* Properties of the final step.                                           *)

\* What view::install gets as the hot signer when the step is drawn.
DisplayedHotSigner(self) == Final_view(self).element.v.hot_signer

\* C11: after load_context on a Context with a recovered signer the step holds
\* the recovered signer's fingerprint, view displays it when there is a
\* descriptor to draw, and hot_signer_is_not_used is false, whatever the
\* descriptor and whatever the flag before.
C11_RecoveredSignerIsDisplayed ==
    [][FinalLoadContext /\ ctx.recovered_signer # None =>
         /\ ~panicked'
         /\ final'.hot_signer_fingerprint = RecoveredFingerprint
         /\ ~final'.hot_signer_is_not_used
         /\ ctx.descriptor # None =>
              DisplayedHotSigner(final') = Some(RecoveredFingerprint)
      ]_vars

\* Final was entered with a recovered signer and a descriptor that has the
\* generated key and not the signer's: the signer's fingerprint is shown.
C11_Witness ==
    /\ final.context = Some(ctx)
    /\ ctx.recovered_signer = Some(RecoveredSigner)
    /\ ctx.descriptor = Some(Descriptor)
    /\ final.hot_signer_fingerprint = RecoveredFingerprint
    /\ final.hot_signer_fingerprint # HotSignerFingerprint
    /\ ~final.hot_signer_is_not_used

\* The descriptors of the model whose text has aabbccdd, the fingerprint of
\* the generated key.
MentionsHotSigner(descriptor) == descriptor \in {Descriptor, DescriptorOfOthers}

\* C12: after load_context on a Context with a descriptor and no recovered
\* signer, hot_signer_is_not_used is true exactly when the fingerprint of the
\* generated key does not occur in the text of the descriptor, on every entry.
C12_UnusedIffKeyNotInDescriptor ==
    [][FinalLoadContext /\ ctx.recovered_signer = None /\ ctx.descriptor # None =>
         final'.hot_signer_is_not_used = ~MentionsHotSigner(ctx.descriptor.v)
      ]_vars

\* The last call was update of Final and it returned an empty Command.
FinalUpdateReturnedNone ==
    returned = Some([of |-> "Final::update", command |-> None])

\* The text of the install errors, written out.
ExpectedWarning(e) ==
    IF e = "CannotCreateDatadir"
    THEN <<"c", "a", "n", "n", "o", "t", " ", "c", "r", "e", "a", "t", "e">>
    ELSE <<"c", "a", "n", "n", "o", "t", " ", "w", "r", "i", "t", "e">>

\* C13: Install sets generating and clears config_path and warning;
\* Installed(result) clears generating and stores the path on success, or the
\* text of the error, with no path, on failure; both return an empty Command
\* and nothing else of the step changes.
C13_InstallThenInstalled ==
    [][/\ Install =>
            /\ final' = [final EXCEPT !.generating = TRUE,
                                      !.config_path = None,
                                      !.warning = None]
            /\ FinalUpdateReturnedNone'
            /\ commands' = commands
       /\ \A res \in InstallResults :
            installs' = installs - 1
            /\ FinalUpdate([tag |-> "Installed", res |-> res]) =>
                /\ ~final'.generating
                /\ res.tag = "Ok" =>
                     final' = [final EXCEPT !.generating = FALSE,
                                           !.config_path = Some(res.v)]
                /\ res.tag = "Err" =>
                     final' = [final EXCEPT !.generating = FALSE,
                                           !.config_path = None,
                                           !.warning = Some(ExpectedWarning(res.e))]
                /\ FinalUpdateReturnedNone'
                /\ commands' = commands
      ]_vars

\* The last install in flight has failed: the error text is stored, there is
\* no path and the generation is over.
C13_Witness ==
    /\ FinalUpdateReturnedNone
    /\ ~final.generating
    /\ final.config_path = None
    /\ final.warning =
         Some(<<"c", "a", "n", "n", "o", "t", " ", "w", "r", "i", "t", "e">>)
    /\ installs = 0

\* C14: update of the node step on a message that is not its own, update of
\* Final on a message other than Install and Installed, and the default update
\* on any message leave the step as it is and return an empty Command.
C14_UnrelatedMessagesIgnored ==
    /\ [](\A message \in Messages :
            /\ message.tag # "DefineBitcoind" =>
                 update(define_bitcoind, message)
                     = [self |-> define_bitcoind, command |-> None]
            /\ message.tag \notin {"Install", "Installed"} =>
                 Final_update(final, message) = [self |-> final, command |-> None]
            /\ Step_update(message) = None)
    /\ [][/\ UnrelatedUpdate =>
                /\ define_bitcoind' = define_bitcoind
                /\ commands' = commands
                /\ returned' = Some([of |-> "DefineBitcoind::update",
                                     command |-> None])
          /\ FinalUnrelatedUpdate =>
                /\ final' = final
                /\ installs' = installs
                /\ commands' = commands
                /\ FinalUpdateReturnedNone'
          /\ WelcomeUpdate =>
                /\ UNCHANGED <<define_bitcoind, final, ctx, commands>>
                /\ returned' = Some([of |-> "Step::update", command |-> None])
          ]_vars

\* The node step, its address marked invalid, has been handed a message that
\* is not its own while Final is generating.
C14_Witness ==
    /\ returned = Some([of |-> "DefineBitcoind::update", command |-> None])
    /\ define_bitcoind.address.value = Localhost
    /\ ~define_bitcoind.address.valid
    /\ final.generating
    /\ installs = 1

\* C15: entering Final (load_context, then view) on a Context without a
\* descriptor panics, in load_context when there is no recovered signer and in
\* view when there is one; no element is drawn and no warning is stored.
C15_NoDescriptorIsFatal ==
    /\ [](~panicked /\ FinalEntered /\ final.context.v.descriptor = None =>
            Final_view(final) = [panic |-> TRUE, element |-> None])
    /\ [][/\ FinalLoadContext /\ ctx.descriptor = None =>
                /\ final'.warning = final.warning
                /\ ctx.recovered_signer = None => panicked'
                /\ ctx.recovered_signer # None =>
                     ~panicked' /\ Final_view(final').panic
          /\ FinalView /\ final.context.v.descriptor = None => panicked'
          ]_vars

\* The session has ended in view: Final was entered with a recovered signer
\* and no descriptor.
C15_Witness ==
    /\ panicked
    /\ final.context # None
    /\ final.context.v.descriptor = None
    /\ final.context.v.recovered_signer = Some(RecoveredSigner)

\* C16: bitcoind_config is written by a successful apply of the node step and
\* by no other operation of the three steps; once set it is never absent.
C16_NodeRecordOnlyByNodeApply ==
    [][/\ ctx.bitcoind_config # None => ctx'.bitcoind_config # None
       /\ ctx'.bitcoind_config # ctx.bitcoind_config =>
            DefineBitcoindApply /\ NodeApplyReturned(TRUE)'
       /\ ctx'.bitcoind_config = ctx.bitcoind_config =>
            ctx' = ctx
      ]_vars

\* The record holds a path typed after Final had been entered with the record
\* of the default path, and an install is in flight.
C16_Witness ==
    /\ ctx.bitcoind_config # None
    /\ ctx.bitcoind_config.v.cookie_path.path = Nonexistent
    /\ final.context # None
    /\ final.context.v.bitcoind_config # None
    /\ final.context.v.bitcoind_config.v.cookie_path.path # Nonexistent
    /\ final.generating
    /\ define_bitcoind.address.value = Empty

----------------------------------------------------------------------------
(* Properties of the probe, of the edits and of apply, continued.          *)

\* The result stored is that of a probe issued with the inputs of c.
DeliveredFor(c) ==
    /\ define_bitcoind.is_running # None
    /\ shown_for # None
    /\ shown_for.v.cookie_path = c.cookie_path
    /\ shown_for.v.address = c.address

\* C17: load and PingBitcoind issue one probe with the field values of the
\* moment, PingBitcoind having reset the outcome, and update returns with the
\* probe in flight; a probe in flight ends in one PingBitcoindResult, which
\* takes it off the Commands in flight and stores one of the four outcomes.
\* No probe stays in flight for ever without a result of it being delivered
\* (a probe leaves the Commands in flight by its delivery only).
C17_ProbeIsDelivered ==
    /\ [](\A c \in BagToSet(commands) : c \in ProbeCommands)
    /\ [][/\ Load \/ PingBitcoind =>
                /\ commands' = commands (+) SetToBag({
                       [address |-> define_bitcoind.address.value,
                        cookie_path |-> define_bitcoind.cookie_path.value]})
                /\ define_bitcoind'.address = define_bitcoind.address
                /\ define_bitcoind'.cookie_path = define_bitcoind.cookie_path
          /\ PingBitcoind => define_bitcoind'.is_running = None
          /\ PingBitcoindResult =>
                /\ BagCardinality(commands') = BagCardinality(commands) - 1
                /\ define_bitcoind'.is_running \in ProbeOutcomes \ {None}
          /\ BagCardinality(commands') < BagCardinality(commands) =>
                PingBitcoindResult
          ]_vars
    /\ \A c \in ProbeCommands : []<>(~BagIn(c, commands) \/ DeliveredFor(c))

\* The probe issued on entry has been answered by the node: nothing is in
\* flight and the outcome is the success of a probe with the testnet defaults.
C17_Witness ==
    /\ commands = EmptyBag
    /\ define_bitcoind.is_running = Some(Ok(Unit))
    /\ DeliveredFor([address |-> ExpectedAddress("Testnet"),
                     cookie_path |-> TestnetCookie])
    /\ shown_for.v.sent

\* C18: an edit of one field leaves the value and the validity flag of the
\* other field as they were.
C18_EditLeavesOtherField ==
    [][/\ AddressEdited =>
            define_bitcoind'.cookie_path = define_bitcoind.cookie_path
       /\ CookiePathEdited =>
            define_bitcoind'.address = define_bitcoind.address
      ]_vars

\* C19: whatever Install and Installed messages Final has received, the
\* location of the written configuration and the warning are never both
\* present.
C19_PathAndWarningExclusive ==
    ~(final.config_path # None /\ final.warning # None)

\* C20: an apply of the node step that returns true leaves both validity
\* flags valid.
C20_TrueApplyMeansValidFlags ==
    [][DefineBitcoindApply /\ NodeApplyReturned(TRUE)' =>
            /\ define_bitcoind'.cookie_path.valid
            /\ define_bitcoind'.address.valid
      ]_vars

====
